---------------------------- MODULE Spec2Model ----------------------------
(***************************************************************************)
(* django-cardano: the transaction construction and fee-balancing engine   *)
(* of src/django_cardano/models.py (AbstractWallet use-cases and           *)
(* AbstractTransaction), with the helpers of shortcuts.py, cli.py and      *)
(* util.py.                                                                *)
(*                                                                         *)
(* One behaviour of Spec is one use-case invocation on one wallet: Init    *)
(* draws the wallet's UTXOs on the ledger and the call (use-case and       *)
(* arguments); every external call (cardano-cli, key decryption) is one    *)
(* step that may succeed or fail.  A raised exception leaves pc at the     *)
(* step that raised and sets error; a normal return sets pc = "returned".  *)
(*                                                                         *)
(* A transaction output is the string '<address>+<lovelace>[+"<q> <a>"]'   *)
(* in the source; it is kept here as the record of the three values that   *)
(* the f-string prints (Python integers print exactly, sign included).     *)
(***************************************************************************)
EXTENDS Integers, Sequences, FiniteSets, TLC

VARIABLES
    ledger,              \* the wallet's UTXOs as 'query utxo' lists them
    call,                \* the use-case invoked and its arguments
    pc,                  \* the step the invocation is at
    error,               \* "none", or the kind of exception raised
    log,                 \* the external interface calls made, in order
    utxos,               \* send_tokens: the first snapshot (self.utxos)
    inputs,              \* transaction.inputs: ('tx-in', 'hash#ix') entries
    outputs,             \* transaction.outputs: ('tx-out', ...) entries
    draft,               \* transaction.draft as last built (or NoFile)
    raw,                 \* transaction.raw as last built (or NoFile)
    tx_fee,              \* the fee calculate_min_fee returned
    lovelace_to_return,  \* the local the change output is computed from
    invalid_hereafter,   \* the expiry slot submit() uses
    signers,             \* the signing keys handed to 'transaction sign'
    tx_id,               \* transaction.tx_id
    files,               \* the files in the intermediate directory
    temp_directory,      \* whether the intermediate directory exists
    saved,               \* whether the transaction has a database record
    alive,               \* whether the transaction object is still referenced
    deleted,             \* whether delete() was called on the transaction
    sized_bundle,        \* CardanoUtils: the bundle being sized, as parsed
    min_utxo_value,      \* CardanoUtils: minUTxOValue of the protocol parameters
    bundle_size,         \* CardanoUtils: the result of token_bundle_size
    dust_value,          \* CardanoUtils: the result of min_token_dust_value
    sizer,               \* CardanoUtils: "idle", "sized" or "valued"
    policy_args,         \* MintingPolicyManager.create: its arguments
    policy_pc,           \* MintingPolicyManager.create: the step it is at
    policy_error,        \* "none", or the kind of exception create raised
    policy_tmp,          \* the files of create's temporary directory
    policy_storage,      \* the policy's files in CardanoDataStorage
    policy_key_hash,     \* the answer of 'address key-hash'
    policy_script,       \* the 'scripts' of policy.script.json
    policy_id,           \* policy.policy_id
    policy_saved,        \* whether the policy has a database record
    chain,               \* two invocations: the wallet's unspent outputs at the node
    race_call,           \* two invocations: the quantity each sends
    race_pc,             \* two invocations: the step each is at
    race_utxos,          \* two invocations: what 'query utxo' listed to each
    race_inputs,         \* two invocations: transaction.inputs of each
    race_change,         \* two invocations: the lovelace each returns to the wallet
    race_log,            \* two invocations: the commands each has run
    spent,               \* the inputs of the transactions the node took, in order
    fee_stdout,          \* calculate_min_fee: what the command prints
    raw_response,        \* calculate_min_fee: what CardanoCLI.run returned
    fee_pc,              \* calculate_min_fee: the step it is at
    fee_result,          \* calculate_min_fee: the value returned
    fee_draft,           \* calculate_min_fee: whether the draft file exists
    fee_params_age,      \* calculate_min_fee: seconds since protocol.json was written
    fee_log,             \* calculate_min_fee: the commands it has run
    st_ledger,           \* send_tokens on a changing ledger: the wallet's UTXOs now
    st_call,             \* send_tokens on a changing ledger: asset_id and quantity
    st_pc,               \* send_tokens on a changing ledger: the step it is at
    st_utxos,            \* send_tokens on a changing ledger: what self.utxos listed
    st_lovelace_utxos,   \* ... and what the self.utxos of self.lovelace_utxos listed
    st_inputs            \* send_tokens on a changing ledger: transaction.inputs

(* What a use-case invocation reads and writes, and what it does not touch *)
mainvars == <<ledger, call, pc, error, log, utxos, inputs, outputs, draft, raw,
              tx_fee, lovelace_to_return, invalid_hereafter, signers, tx_id, files,
              temp_directory, saved, alive, deleted>>
sizervars == <<sized_bundle, min_utxo_value, bundle_size, dust_value, sizer>>
policyvars == <<policy_args, policy_pc, policy_error, policy_tmp, policy_storage,
                policy_key_hash, policy_script, policy_id, policy_saved>>
racevars == <<chain, race_call, race_pc, race_utxos, race_inputs, race_change,
              race_log, spent>>
feevars == <<fee_stdout, raw_response, fee_pc, fee_result, fee_draft, fee_params_age,
             fee_log>>
snapvars == <<st_ledger, st_call, st_pc, st_utxos, st_lovelace_utxos, st_inputs>>
othervars == <<sizervars, policyvars, racevars, feevars, snapvars>>

vars == <<mainvars, othervars>>

-----------------------------------------------------------------------------
(* Bounds of the model *)

MaxUtxos == 2
MaxQuantity == 2
MaxValues == 1

(* Program constants *)

UTXO_ENTRY_SIZE_WITHOUT_VAL == 27
COIN_SIZE_AsEntrySize == UTXO_ENTRY_SIZE_WITHOUT_VAL
COIN_SIZE == 0
DEFAULT_TRANSACTION_TTL == 1000
SIGNING_KEY_DECRYPTION_FAILURE == -2
POLICY_SIGNING_KEY_DECRYPTION_FAILURE == -4

lovelace_unit == "lovelace"

(* The sampled domains of what the ledger and the caller supply *)

Assets == {"A", "B"}                 \* native tokens a UTXO may hold
MintedAsset == "M"                   \* <policy_id>.<asset_name> of a mint
AllAssets == {lovelace_unit} \cup Assets \cup {MintedAsset}

LovelaceValues == {1500000, 10000000}
TokenHoldings ==
    { [A |-> 0, B |-> 0], [A |-> 2, B |-> 0], [A |-> 1, B |-> 1] }

ProtocolParameters == [minUTxOValue |-> 1000000, txFeeFixed |-> 155381]
FeeValues == {170000, 2000000}       \* '<N> Lovelace' answers of the estimator
TipSlots == {40000}                  \* 'slot' of 'query tip'
LovelaceQuantities == {4000000, 12000000}
PartitionValues == {2000000}
(* None where a slot is expected; a slot is a natural number.  'if slot:'   *)
(* takes None and 0 alike as no slot.                                       *)
NoSlot == -1
SlotIsTruthy(slot) == slot \notin {NoSlot, 0}

(* The slot of the first 'before' clause of the policy script, if any *)
PolicyBeforeSlots == {NoSlot, 0, 50000}
Passwords == {"None", "", "pw"}      \* None, the empty string, a non-empty string
(* payment_utxo of mint_tokens: None (0), or a UTXO of the listing *)
PaymentUtxos == {0, 1}
(* metadata of mint_tokens: its default (the class dict), {}, a dict *)
Metadata == {"dict", "{}", "given"}

NoFile == [exists |-> FALSE]
NoBundle == [asset |-> "", quantity |-> 0]

-----------------------------------------------------------------------------
(* UTXOs.  Tokens maps every asset id to its quantity; 0 stands for a key   *)
(* the Tokens dict does not hold.  TxHash#TxIx is the place in the listing. *)

Utxo(i, l, t) ==
    [id |-> i,
     Tokens |-> [a \in AllAssets |->
                   IF a = lovelace_unit THEN l
                   ELSE IF a \in Assets THEN t[a] ELSE 0]]

asset_types(utxo) == {a \in AllAssets : utxo.Tokens[a] > 0}

RECURSIVE SeqSum(_)
SeqSum(s) == IF s = <<>> THEN 0 ELSE Head(s) + SeqSum(Tail(s))

Ledgers ==
    UNION { { [i \in 1..n |-> Utxo(i, ls[i], ts[i])] :
                ls \in [1..n -> LovelaceValues], ts \in [1..n -> TokenHoldings] }
            : n \in 0..MaxUtxos }


-----------------------------------------------------------------------------
(* shortcuts.py *)

RECURSIVE filter_utxos_AnyHolder(_, _, _)
filter_utxos_AnyHolder(us, include, exclude) ==
    IF us = <<>> THEN <<>>
    ELSE (IF include \in asset_types(Head(us)) THEN <<Head(us)>> ELSE <<>>)
         \o filter_utxos_AnyHolder(Tail(us), include, exclude)

RECURSIVE filter_utxos(_, _, _)
filter_utxos(us, include, exclude) ==
    IF us = <<>> THEN <<>>
    ELSE LET utxo == Head(us)
             types == asset_types(utxo)
             included ==
                 IF include = lovelace_unit
                 THEN (IF Cardinality(types) = 1 THEN <<utxo>> ELSE <<>>)
                 ELSE (IF include \in types THEN <<utxo>> ELSE <<>>)
             excluded ==
                 IF exclude = lovelace_unit
                 THEN (IF Cardinality(types) > 1 THEN <<utxo>>
                       ELSE IF exclude \notin types THEN <<utxo>> ELSE <<>>)
                 ELSE <<>>
         IN  included \o excluded \o filter_utxos(Tail(us), include, exclude)

(* sorted() is stable, also with reverse=True: an element goes after every  *)
(* element already placed that may stay in front of it.                     *)
RECURSIVE InsertSorted(_, _, _, _)
InsertSorted(sorted, utxo, type, order) ==
    IF sorted = <<>> THEN <<utxo>>
    ELSE LET h == Head(sorted)
             stays == IF order = "desc"
                      THEN h.Tokens[type] >= utxo.Tokens[type]
                      ELSE h.Tokens[type] <= utxo.Tokens[type]
         IN  IF stays
             THEN <<h>> \o InsertSorted(Tail(sorted), utxo, type, order)
             ELSE <<utxo>> \o sorted

RECURSIVE SortInto(_, _, _, _)
SortInto(sorted, us, type, order) ==
    IF us = <<>> THEN sorted
    ELSE SortInto(InsertSorted(sorted, Head(us), type, order), Tail(us), type, order)

sort_utxos(us, type, order) == SortInto(<<>>, us, type, order)

(* sort_utxos(utxos, type=LOVELACE_UNIT, order='desc'): the defaults *)
DefaultOrder == "desc"

-----------------------------------------------------------------------------
(* The minimum lovelace that accompanies a token bundle.  A bundle here is  *)
(* the one-asset bundle '"<quantity> <asset_id>"' the use-cases build.      *)

AssetNameLength == [a \in Assets \cup {MintedAsset} |->
                      IF a = "A" THEN 7 ELSE IF a = "B" THEN 0 ELSE 8]
PolicyIdLength == [a \in Assets \cup {MintedAsset} |-> 28]

(* bundleSizeWords = 6 + ceil((byteCount + 7) / 8) *)
bundleSizeWords(byteCount) == 6 + ((byteCount + 7) + 7) \div 8

(* minDust = max(minUtxoValue, floor(minUtxoValue / adaOnlyUtxoSize)        *)
(*                               * (utxoEntrySizeWithoutVal + words))       *)
minDustFor(words, minUtxoValue) ==
    LET adaOnlyUtxoSize == UTXO_ENTRY_SIZE_WITHOUT_VAL + COIN_SIZE
        scaled == (minUtxoValue \div adaOnlyUtxoSize)
                    * (UTXO_ENTRY_SIZE_WITHOUT_VAL + words)
    IN  IF scaled > minUtxoValue THEN scaled ELSE minUtxoValue

token_bundle_size(bundle) ==
    LET byteCount == 1 * 12 + AssetNameLength[bundle.asset] + PolicyIdLength[bundle.asset]
    IN  bundleSizeWords(byteCount)

min_token_dust_value(bundle) ==
    minDustFor(token_bundle_size(bundle), ProtocolParameters.minUTxOValue)

(* A bundle of any number of assets, as token_bundle_info parses it: one    *)
(* part '"<quantity> <policy_id>[.<asset_name>]"' per asset; the policy id  *)
(* is hexadecimal, two characters to the byte.                              *)
Part(quantity, policy, name) ==
    [quantity |-> quantity, policy_id |-> policy, asset_name |-> name]

distinct_policy_ids(parts) == {parts[i].policy_id : i \in 1..Len(parts)}
distinct_asset_names(parts) == {parts[i].asset_name : i \in 1..Len(parts)}

(* The byte lengths of a set of strings, summed; for a policy id, two       *)
(* hexadecimal characters to the byte                                       *)
RECURSIVE SumBytes(_, _)
SumBytes(strings, per_byte) ==
    IF strings = {} THEN 0
    ELSE LET x == CHOOSE y \in strings : TRUE
         IN  (Len(x) + per_byte - 1) \div per_byte + SumBytes(strings \ {x}, per_byte)

bundleSize(parts) ==
    LET numAssets == Len(parts)
        sumAssetNameLengths == SumBytes(distinct_asset_names(parts), 1)
        byteCount == numAssets * 12 + sumAssetNameLengths
                       + SumBytes(distinct_policy_ids(parts), 2)
    IN  bundleSizeWords(byteCount)

-----------------------------------------------------------------------------
(* The call and the transaction object *)

Truthy(password) == password \notin {"None", ""}

(* Whether the use-case goes on to fee, sign and submit after its draft *)
Committing_Always == TRUE

Committing ==
    CASE call.op \in {"send_lovelace", "send_tokens", "consolidate_utxos"} ->
             Truthy(call.password)
      [] call.op = "partition_lovelace" -> call.password # "None"
      [] call.op = "mint_tokens" ->
             call.password # "None" /\ call.minting_password # "None"

HasMintingPolicy == call.op = "mint_tokens"
(* 'if self.metadata:' -- the class dict (the default of mint_tokens) and a *)
(* non-empty dict are truthy, None and {} are not                          *)
HasMetadata == call.metadata \in {"dict", "given"}
MintBundle == IF call.op = "mint_tokens"
              THEN [asset |-> MintedAsset, quantity |-> call.quantity]
              ELSE NoBundle

TxIn(utxo) == utxo.id
TxOut(address, lovelace, bundle) ==
    [address |-> address, lovelace |-> lovelace, bundle |-> bundle]

RECURSIVE TxIns(_)
TxIns(us) == IF us = <<>> THEN <<>> ELSE <<TxIn(Head(us))>> \o TxIns(Tail(us))

RECURSIVE TotalOf(_, _)
TotalOf(us, type) ==
    IF us = <<>> THEN 0 ELSE Head(us).Tokens[type] + TotalOf(Tail(us), type)

(* The selection loops of send_lovelace and send_tokens: append UTXOs in    *)
(* order and break once the running total of `type` reaches the target.     *)
SelectUntil_TakesAll(us, type, target, total) == us

RECURSIVE SelectUntil(_, _, _, _)
SelectUntil(us, type, target, total) ==
    IF us = <<>> THEN <<>>
    ELSE IF total + Head(us).Tokens[type] >= target THEN <<Head(us)>>
    ELSE <<Head(us)>> \o
         SelectUntil(Tail(us), type, target, total + Head(us).Tokens[type])

(* CardanoCLI.run: one external call, recorded with its outcome *)
CardanoCLI_run(command, out, ok) ==
    Append(log, [cmd |-> command, out |-> out, ok |-> ok])

Calls ==
    { [op |-> "send_lovelace", quantity |-> q, asset_id |-> "", password |-> p,
       minting_password |-> "None", values |-> <<>>, payment_utxo |-> 0, before |-> 0,
       metadata |-> "None"] :
        q \in LovelaceQuantities, p \in Passwords }
    \cup
    { [op |-> "send_tokens", quantity |-> q, asset_id |-> a, password |-> p,
       minting_password |-> "None", values |-> <<>>, payment_utxo |-> 0, before |-> 0,
       metadata |-> "None"] :
        q \in 1..MaxQuantity, a \in Assets, p \in Passwords }
    \cup
    { [op |-> "consolidate_utxos", quantity |-> 0, asset_id |-> "", password |-> p,
       minting_password |-> "None", values |-> <<>>, payment_utxo |-> 0, before |-> 0,
       metadata |-> "None"] :
        p \in Passwords }
    \cup
    { [op |-> "partition_lovelace", quantity |-> 0, asset_id |-> "", password |-> p,
       minting_password |-> "None", values |-> v, payment_utxo |-> 0, before |-> 0,
       metadata |-> "None"] :
        p \in Passwords,
        v \in UNION { [1..n -> PartitionValues] : n \in 0..MaxValues } }
    \cup
    { [op |-> "mint_tokens", quantity |-> 1, asset_id |-> MintedAsset, password |-> p,
       minting_password |-> m, values |-> <<>>, payment_utxo |-> u, before |-> b,
       metadata |-> d] :
        p \in Passwords, m \in Passwords, u \in PaymentUtxos, b \in PolicyBeforeSlots,
        d \in Metadata }

(* No bundle is being sized *)
SizerIdle ==
    /\ sized_bundle = <<>>
    /\ min_utxo_value = ProtocolParameters.minUTxOValue
    /\ bundle_size = 0
    /\ dust_value = 0
    /\ sizer = "idle"

(* No policy is being created *)
PolicyIdle ==
    /\ policy_args = [password |-> "pw", invalid_before |-> NoSlot,
                      invalid_hereafter |-> NoSlot]
    /\ policy_pc = "start"
    /\ policy_error = "none"
    /\ policy_tmp = {}
    /\ policy_storage = {}
    /\ policy_key_hash = ""
    /\ policy_script = <<>>
    /\ policy_id = ""
    /\ policy_saved = FALSE

(* The wallets whose invocations may overlap *)
Invocations == {1, 2}

(* No two invocations overlap *)
RaceIdle ==
    /\ chain = <<>>
    /\ race_call = [p \in Invocations |-> 0]
    /\ race_pc = [p \in Invocations |-> "start"]
    /\ race_utxos = [p \in Invocations |-> <<>>]
    /\ race_inputs = [p \in Invocations |-> <<>>]
    /\ race_change = [p \in Invocations |-> 0]
    /\ race_log = [p \in Invocations |-> <<>>]
    /\ spent = <<>>

(* No fee estimate is being parsed *)
FeeIdle ==
    /\ fee_stdout = <<>>
    /\ raw_response = <<>>
    /\ fee_pc = "start"
    /\ fee_result = 0
    /\ fee_draft = FALSE
    /\ fee_params_age = 0
    /\ fee_log = <<>>

(* No send_tokens is followed on a changing ledger *)
SnapIdle ==
    /\ st_ledger = <<>>
    /\ st_call = [asset_id |-> "", quantity |-> 0]
    /\ st_pc = "start"
    /\ st_utxos = <<>>
    /\ st_lovelace_utxos = <<>>
    /\ st_inputs = <<>>

(* A transaction-less wallet before any use-case is invoked *)
Fresh ==
    /\ pc = "start"
    /\ error = "none"
    /\ log = <<>>
    /\ utxos = <<>>
    /\ inputs = <<>>
    /\ outputs = <<>>
    /\ draft = NoFile
    /\ raw = NoFile
    /\ tx_fee = 0
    /\ lovelace_to_return = 0
    /\ invalid_hereafter = 0
    /\ signers = <<>>
    /\ tx_id = ""
    /\ files = {}
    /\ temp_directory = FALSE
    /\ saved = FALSE
    /\ alive = FALSE
    /\ deleted = FALSE

Init ==
    /\ ledger \in Ledgers
    /\ call \in Calls
    /\ call.payment_utxo <= Len(ledger)
    /\ Fresh
    /\ SizerIdle
    /\ PolicyIdle
    /\ RaceIdle
    /\ FeeIdle
    /\ SnapIdle

-----------------------------------------------------------------------------
(* Frames *)

callvars == <<ledger, call>>
txvars == <<inputs, outputs, lovelace_to_return>>
submitvars == <<raw, tx_fee, invalid_hereafter, signers, tx_id, saved>>
lifevars == <<alive, deleted>>

Running == error = "none" /\ pc # "returned"

(* transaction_class(tx_type=...): AbstractTransaction.__init__ creates the *)
(* intermediate directory *)
Construct ==
    /\ temp_directory' = TRUE
    /\ alive' = TRUE

(* An exception leaves the use-case: nothing but error changes any more *)
Raise(kind) ==
    /\ error' = kind
    /\ pc' = pc

(* CardanoCLI.run on FileNotFoundError or CalledProcessError: it raises     *)
(* CardanoError(source_error=e), which no use-case catches                  *)
CliFailed_Retries ==
    /\ error' = error
    /\ pc' = pc

CliFailed == Raise("interface")

(* CardanoError.code.  An int: -1 by default, the exit status when the      *)
(* source error is a CalledProcessError (negative: killed by that signal).  *)
(* The decryption failures pass a member of the Enum CardanoErrorType,      *)
(* which equals no int.                                                     *)
IntCode(n) == [type |-> "int", value |-> n]
EnumCode(n) == [type |-> "CardanoErrorType", value |-> n]
ExitStatuses == {1, 2, -2, -4}

CardanoError_code(kind) ==
    CASE kind = "interface" -> {IntCode(-1)} \cup {IntCode(n) : n \in ExitStatuses}
      [] kind = "signing_key_decryption" ->
             {EnumCode(SIGNING_KEY_DECRYPTION_FAILURE)}
      [] kind = "policy_signing_key_decryption" ->
             {EnumCode(POLICY_SIGNING_KEY_DECRYPTION_FAILURE)}
      [] kind \in {"insufficient_funds", "no_draft"} -> {IntCode(-1)}
      [] OTHER -> {}

-----------------------------------------------------------------------------
(* AbstractWallet.send_lovelace, up to its draft *)

SendLovelaceRefresh ==
    /\ Running /\ pc = "start" /\ call.op = "send_lovelace"
    /\ \E ok \in BOOLEAN :
         /\ log' = CardanoCLI_run("query protocol-parameters", "", ok)
         /\ IF ok
            THEN pc' = "sl_utxos" /\ error' = error /\ Construct
            ELSE CliFailed /\ UNCHANGED <<temp_directory, alive>>
    /\ UNCHANGED <<othervars, callvars, utxos, txvars, draft, submitvars, files, deleted>>

(* The selection of send_lovelace among the UTXOs 'query utxo' listed *)
LovelaceSelection(listed, quantity) ==
    LET estimated_tx_fee == ProtocolParameters.txFeeFixed
        sorted_lovelace_utxos ==
            sort_utxos(filter_utxos(listed, lovelace_unit, "None"),
                       lovelace_unit, DefaultOrder)
    IN  SelectUntil(sorted_lovelace_utxos, lovelace_unit,
                    quantity + estimated_tx_fee, 0)

SendLovelaceInputs == LovelaceSelection(ledger, call.quantity)

SendLovelaceSelect ==
    /\ Running /\ pc = "sl_utxos"
    /\ \E ok \in BOOLEAN :
         /\ log' = CardanoCLI_run("query utxo", "", ok)
         /\ IF ok
            THEN LET selected == SendLovelaceInputs
                     total_lovelace_being_sent == TotalOf(selected, lovelace_unit)
                 IN  /\ inputs' = TxIns(selected)
                     /\ outputs' = << TxOut("X", call.quantity, NoBundle),
                                      TxOut("self", total_lovelace_being_sent, NoBundle) >>
                     /\ lovelace_to_return' = total_lovelace_being_sent
                     /\ pc' = "draft" /\ error' = error
            ELSE CliFailed /\ UNCHANGED txvars
    /\ UNCHANGED <<othervars, callvars, utxos, draft, submitvars, files, temp_directory, lifevars>>

-----------------------------------------------------------------------------
(* AbstractTransaction.generate_draft *)

BuildArgs(fee, slot) ==
    [exists |-> TRUE, inputs |-> inputs, outputs |-> outputs, fee |-> fee,
     invalid_hereafter |-> slot, mint |-> MintBundle,
     metadata |-> HasMetadata, script |-> HasMintingPolicy]

MetadataFile == IF HasMetadata THEN {"metadata.json"} ELSE {}

(* After the draft: 'if password:' (each use-case in its own way) goes on   *)
(* to calculate_min_fee, a dry run returns the transaction                  *)
AfterDraft_SkipsFee == IF Committing THEN "finalize" ELSE "returned"

AfterDraft == IF Committing THEN "fee_refresh" ELSE "returned"

(* json.dump(self.metadata, metadata_file): the class dict is not           *)
(* serializable, json.dump raises TypeError after the file was opened       *)
Serializable == call.metadata # "dict"

(* Keyword arguments are the pairs of a dict in order; of two pairs with    *)
(* one key the later one counts.                                            *)
RECURSIVE Lookup(_, _, _)
Lookup(pairs, key, default) ==
    IF pairs = <<>> THEN default
    ELSE IF pairs[Len(pairs)][1] = key THEN pairs[Len(pairs)][2]
    ELSE Lookup(SubSeq(pairs, 1, Len(pairs) - 1), key, default)

(* The kwargs of generate_draft: the use-cases pass nothing but mint;     *)
(* another caller of the method may pass more, a fee among them            *)
DraftKwargs == {<<>>} \cup { << <<"fee", n>> >> : n \in FeeValues }

(* cmd_kwargs = {**kwargs, 'fee': 0, 'out-file': self.draft_tx_file_path} *)
generate_draft_cmd_kwargs_CallerWins(kwargs) ==
    << <<"fee", 0>>, <<"out-file", "transaction.draft">> >> \o kwargs

generate_draft_cmd_kwargs(kwargs) ==
    kwargs \o << <<"fee", 0>>, <<"out-file", "transaction.draft">> >>

GenerateDraft ==
    /\ Running /\ pc = "draft"
    /\ IF HasMetadata /\ ~Serializable
       THEN /\ Raise("type_error")
            /\ files' = files \cup MetadataFile
            /\ UNCHANGED <<log, draft>>
       ELSE \E ok \in BOOLEAN, kwargs \in DraftKwargs :
              /\ log' = CardanoCLI_run("transaction build-raw", "transaction.draft", ok)
              /\ IF ok
                 THEN /\ draft' = BuildArgs(Lookup(generate_draft_cmd_kwargs(kwargs),
                                                   "fee", 0),
                                            Lookup(generate_draft_cmd_kwargs(kwargs),
                                                   "invalid-hereafter", 0))
                      /\ files' = files \cup MetadataFile \cup {"transaction.draft"}
                      /\ pc' = AfterDraft
                      /\ error' = error
                 ELSE /\ CliFailed
                      /\ files' = files \cup MetadataFile
                      /\ draft' = draft
    /\ UNCHANGED <<othervars, callvars, utxos, txvars, submitvars, temp_directory, lifevars>>

-----------------------------------------------------------------------------
(* AbstractTransaction.calculate_min_fee *)

CalculateMinFeeRefresh ==
    /\ Running /\ pc = "fee_refresh"
    /\ IF "transaction.draft" \notin files
       THEN Raise("no_draft") /\ log' = log
       ELSE \E ok \in BOOLEAN :
              /\ log' = CardanoCLI_run("query protocol-parameters", "", ok)
              /\ IF ok THEN pc' = "minfee" /\ error' = error
                       ELSE CliFailed
    /\ UNCHANGED <<othervars, callvars, utxos, txvars, draft, submitvars, files,
                   temp_directory, lifevars>>

(* The answers of 'transaction calculate-min-fee': a failure, '<N> Lovelace', *)
(* or text MIN_FEE_RE does not match (match[1] then raises TypeError)         *)
MinFeeResponses ==
    {[ok |-> FALSE, matches |-> FALSE, fee |-> 0]}
    \cup {[ok |-> TRUE, matches |-> FALSE, fee |-> 0]}
    \cup {[ok |-> TRUE, matches |-> TRUE, fee |-> n] : n \in FeeValues}

WitnessCount_ByPassword ==
    IF HasMintingPolicy /\ Truthy(call.minting_password) THEN 2 ELSE 1

WitnessCount == IF HasMintingPolicy THEN 2 ELSE 1

(* The counts handed to 'transaction calculate-min-fee' *)
MinFeeArgs ==
    [tx_in_count |-> Len(inputs), tx_out_count |-> Len(outputs),
     witness_count |-> WitnessCount, byron_witness_count |-> 0]

CalculateMinFee ==
    /\ Running /\ pc = "minfee"
    /\ \E r \in MinFeeResponses :
         /\ log' = Append(log, [cmd |-> "transaction calculate-min-fee", out |-> "",
                                ok |-> r.ok, args |-> MinFeeArgs])
         /\ IF ~r.ok THEN CliFailed /\ tx_fee' = tx_fee
            ELSE IF ~r.matches THEN Raise("type_error") /\ tx_fee' = tx_fee
            ELSE tx_fee' = r.fee /\ pc' = "finalize" /\ error' = error
    /\ UNCHANGED <<othervars, callvars, utxos, txvars, draft, raw, invalid_hereafter, signers,
                   tx_id, saved, files, temp_directory, lifevars>>

-----------------------------------------------------------------------------
(* The change output after the fee is known (the last output is rewritten)  *)

SendLovelaceChange_KeepsQuantity == lovelace_to_return - tx_fee
SendLovelaceChange_AddsFee == lovelace_to_return - call.quantity + tx_fee

SendLovelaceChange == lovelace_to_return - call.quantity - tx_fee
SendTokensChange == lovelace_to_return - tx_fee
ConsolidateChange == lovelace_to_return - tx_fee
PartitionChange == lovelace_to_return - tx_fee
MintTokensChange == lovelace_to_return - tx_fee

FinalChange ==
    CASE call.op = "send_lovelace" -> SendLovelaceChange
      [] call.op = "send_tokens" -> SendTokensChange
      [] call.op = "consolidate_utxos" -> ConsolidateChange
      [] call.op = "partition_lovelace" -> PartitionChange
      [] call.op = "mint_tokens" -> MintTokensChange

(* mint_tokens: the slot of the policy script's first 'before' clause, or   *)
(* None (0); the other use-cases pass no invalid_hereafter                  *)
SuppliedInvalidHereafter ==
    IF call.op = "mint_tokens" THEN call.before ELSE NoSlot

Finalize ==
    /\ Running /\ pc = "finalize"
    /\ outputs' = [outputs EXCEPT ![Len(outputs)] =
                      TxOut(outputs[Len(outputs)].address, FinalChange, NoBundle)]
    /\ invalid_hereafter' = SuppliedInvalidHereafter
    /\ pc' = IF SlotIsTruthy(SuppliedInvalidHereafter) THEN "build" ELSE "tip"
    /\ UNCHANGED <<othervars, callvars, error, log, utxos, inputs, lovelace_to_return, draft,
                   raw, tx_fee, signers, tx_id, saved, files, temp_directory, lifevars>>

-----------------------------------------------------------------------------
(* AbstractTransaction.submit *)

SubmitQueryTip ==
    /\ Running /\ pc = "tip"
    /\ \E ok \in BOOLEAN, current_slot \in TipSlots :
         /\ log' = CardanoCLI_run("query tip", "", ok)
         /\ IF ok
            THEN /\ invalid_hereafter' = current_slot + DEFAULT_TRANSACTION_TTL
                 /\ pc' = "build" /\ error' = error
            ELSE CliFailed /\ invalid_hereafter' = invalid_hereafter
    /\ UNCHANGED <<othervars, callvars, utxos, txvars, draft, raw, tx_fee, signers, tx_id, saved,
                   files, temp_directory, lifevars>>

SubmitBuildRaw ==
    /\ Running /\ pc = "build"
    /\ \E ok \in BOOLEAN :
         /\ log' = CardanoCLI_run("transaction build-raw", "transaction.raw", ok)
         /\ IF ok
            THEN /\ raw' = BuildArgs(tx_fee, invalid_hereafter)
                 /\ files' = files \cup {"transaction.raw"}
                 /\ pc' = "decrypt" /\ error' = error
            ELSE CliFailed /\ UNCHANGED <<raw, files>>
    /\ UNCHANGED <<othervars, callvars, utxos, txvars, draft, tx_fee, invalid_hereafter, signers,
                   tx_id, saved, temp_directory, lifevars>>

(* pyAesCrypt.decryptFile writes the decrypted key, or raises ValueError    *)
(* (wrong password, corrupted file) and leaves no output file               *)
DecryptsPolicyKey == HasMintingPolicy /\ Truthy(call.minting_password)

KeyDecryptionFailure_Generic == "interface"

KeyDecryptionFailure == "signing_key_decryption"
PolicyKeyDecryptionFailure == "policy_signing_key_decryption"

SubmitDecryptKey ==
    /\ Running /\ pc = "decrypt"
    /\ \E ok \in BOOLEAN :
         IF ok
         THEN /\ files' = files \cup {"signing.key"}
              /\ pc' = IF DecryptsPolicyKey THEN "decrypt_policy" ELSE "sign"
              /\ error' = error
         ELSE Raise(KeyDecryptionFailure) /\ files' = files
    /\ UNCHANGED <<othervars, callvars, log, utxos, txvars, draft, submitvars, temp_directory,
                   lifevars>>

SubmitDecryptPolicyKey ==
    /\ Running /\ pc = "decrypt_policy"
    /\ \E ok \in BOOLEAN :
         IF ok
         THEN /\ files' = files \cup {"policy-signing.key"}
              /\ pc' = "sign" /\ error' = error
         ELSE Raise(PolicyKeyDecryptionFailure) /\ files' = files
    /\ UNCHANGED <<othervars, callvars, log, utxos, txvars, draft, submitvars, temp_directory,
                   lifevars>>

SigningKeys ==
    (IF "policy-signing.key" \in files THEN <<"policy-signing.key">> ELSE <<>>)
    \o <<"signing.key">>

SubmitSign ==
    /\ Running /\ pc = "sign"
    /\ \E ok \in BOOLEAN :
         /\ log' = CardanoCLI_run("transaction sign", "transaction.signed", ok)
         /\ signers' = SigningKeys
         /\ IF ok
            THEN /\ files' = files \cup {"transaction.signed"}
                 /\ pc' = "txid" /\ error' = error
            ELSE CliFailed /\ files' = files
    /\ UNCHANGED <<othervars, callvars, utxos, txvars, draft, raw, tx_fee, invalid_hereafter,
                   tx_id, saved, temp_directory, lifevars>>

SubmitTxId ==
    /\ Running /\ pc = "txid"
    /\ \E ok \in BOOLEAN :
         /\ log' = CardanoCLI_run("transaction txid", "", ok)
         /\ IF ok
            THEN tx_id' = "txid" /\ pc' = "submit" /\ error' = error
            ELSE CliFailed /\ tx_id' = tx_id
    /\ UNCHANGED <<othervars, callvars, utxos, txvars, draft, raw, tx_fee, invalid_hereafter,
                   signers, saved, files, temp_directory, lifevars>>

(* 'transaction submit', then tx_file.save(..., save=False) and             *)
(* temp_directory.cleanup()                                                 *)
SubmitTransaction ==
    /\ Running /\ pc = "submit"
    /\ \E ok \in BOOLEAN :
         /\ log' = CardanoCLI_run("transaction submit", "", ok)
         /\ IF ok
            THEN /\ files' = {} /\ temp_directory' = FALSE
                 /\ pc' = "save" /\ error' = error
            ELSE CliFailed /\ UNCHANGED <<files, temp_directory>>
    /\ UNCHANGED <<othervars, callvars, utxos, txvars, draft, submitvars, lifevars>>

(* transaction.save() of the use-case, and its return *)
SaveTransaction ==
    /\ Running /\ pc = "save"
    /\ saved' = TRUE
    /\ pc' = "returned"
    /\ UNCHANGED <<othervars, callvars, error, log, utxos, txvars, draft, raw, tx_fee,
                   invalid_hereafter, signers, tx_id, files, temp_directory, lifevars>>

-----------------------------------------------------------------------------
(* After the use-case: the caller deletes the transaction it got, or the    *)
(* last reference to the object goes and __del__ runs                       *)

Delete_KeepsFiles ==
    /\ pc = "returned" /\ alive /\ ~deleted
    /\ saved' = FALSE
    /\ deleted' = TRUE
    /\ UNCHANGED <<othervars, callvars, pc, error, log, utxos, txvars, draft, raw, tx_fee,
                   invalid_hereafter, signers, tx_id, alive, files, temp_directory>>

Delete ==
    /\ pc = "returned" /\ alive /\ ~deleted
    /\ files' = {} /\ temp_directory' = FALSE
    /\ saved' = FALSE
    /\ deleted' = TRUE
    /\ UNCHANGED <<othervars, callvars, pc, error, log, utxos, txvars, draft, raw, tx_fee,
                   invalid_hereafter, signers, tx_id, alive>>

Del ==
    /\ (pc = "returned" \/ error # "none") /\ alive
    /\ files' = {} /\ temp_directory' = FALSE
    /\ alive' = FALSE
    /\ UNCHANGED <<othervars, callvars, pc, error, log, utxos, txvars, draft, raw, tx_fee,
                   invalid_hereafter, signers, tx_id, saved, deleted>>

-----------------------------------------------------------------------------
(* AbstractWallet.send_tokens, up to its draft *)

SendTokensUtxos ==
    /\ Running /\ pc = "start" /\ call.op = "send_tokens"
    /\ \E ok \in BOOLEAN :
         /\ log' = CardanoCLI_run("query utxo", "", ok)
         /\ IF ok
            THEN utxos' = ledger /\ pc' = "st_lovelace_utxos" /\ error' = error
            ELSE CliFailed /\ utxos' = utxos
    /\ UNCHANGED <<othervars, callvars, txvars, draft, submitvars, files, temp_directory, lifevars>>

TokenBundle(quantity, asset_id) == [asset |-> asset_id, quantity |-> quantity]

(* The outputs of send_tokens: the tokens sent, the tokens returned (if     *)
(* any), the lovelace returned                                              *)
SendTokensOutputs(total_lovelace_being_sent, total_tokens_being_sent) ==
    LET sent == TokenBundle(call.quantity, call.asset_id)
        tokens_to_return == total_tokens_being_sent - call.quantity
        returned == TokenBundle(tokens_to_return, call.asset_id)
        first == << TxOut("X", min_token_dust_value(sent), sent) >>
        second == IF tokens_to_return > 0
                  THEN << TxOut("self", min_token_dust_value(returned), returned) >>
                  ELSE <<>>
        rest == total_lovelace_being_sent - min_token_dust_value(sent)
                  - (IF tokens_to_return > 0 THEN min_token_dust_value(returned) ELSE 0)
    IN  first \o second \o << TxOut("self", rest, NoBundle) >>

SendTokensSelect ==
    /\ Running /\ pc = "st_lovelace_utxos"
    /\ \E ok \in BOOLEAN :
         /\ log' = CardanoCLI_run("query utxo", "", ok)
         /\ IF ~ok
            THEN CliFailed /\ UNCHANGED <<txvars, temp_directory, alive>>
            ELSE
              LET sorted_lovelace_utxos ==
                      sort_utxos(filter_utxos(ledger, lovelace_unit, "None"),
                                 lovelace_unit, DefaultOrder)
                  token_utxos ==
                      sort_utxos(filter_utxos(utxos, call.asset_id, "None"),
                                 call.asset_id, DefaultOrder)
                  lovelace_utxo == sorted_lovelace_utxos[1]
                  selected == SelectUntil(token_utxos, call.asset_id, call.quantity, 0)
                  total_tokens_being_sent == TotalOf(selected, call.asset_id)
                  total_lovelace_being_sent ==
                      lovelace_utxo.Tokens[lovelace_unit] + TotalOf(selected, lovelace_unit)
                  new_outputs ==
                      SendTokensOutputs(total_lovelace_being_sent, total_tokens_being_sent)
              IN  IF sorted_lovelace_utxos = <<>>
                  THEN /\ Raise("insufficient_funds")
                       /\ UNCHANGED <<txvars, temp_directory, alive>>
                  ELSE IF total_tokens_being_sent < call.quantity
                  THEN /\ Raise("insufficient_funds")
                       /\ Construct
                       /\ inputs' = <<TxIn(lovelace_utxo)>> \o TxIns(selected)
                       /\ UNCHANGED <<outputs, lovelace_to_return>>
                  ELSE /\ Construct
                       /\ inputs' = <<TxIn(lovelace_utxo)>> \o TxIns(selected)
                       /\ outputs' = new_outputs
                       /\ lovelace_to_return' = new_outputs[Len(new_outputs)].lovelace
                       /\ pc' = "draft" /\ error' = error
    /\ UNCHANGED <<othervars, callvars, utxos, draft, submitvars, files, deleted>>

-----------------------------------------------------------------------------
(* AbstractWallet.consolidate_utxos, up to its draft *)

(* AbstractWallet.balance: the total of every asset, in the order in which  *)
(* the assets first appear in the listing (a UTXO lists A before B)         *)
RECURSIVE AssetsSeen(_, _)
AssetsSeen(us, seen) ==
    IF us = <<>> THEN seen
    ELSE LET held(a) == Head(us).Tokens[a] > 0
             has(a) == \E i \in 1..Len(seen) : seen[i] = a
             withA == IF held("A") /\ ~has("A") THEN Append(seen, "A") ELSE seen
             hasB == \E i \in 1..Len(withA) : withA[i] = "B"
             withB == IF held("B") /\ ~hasB THEN Append(withA, "B") ELSE withA
         IN  AssetsSeen(Tail(us), withB)

RECURSIVE ConsolidateOutputs_FlatDust(_, _, _)
ConsolidateOutputs_FlatDust(asset_ids, us, remaining_lovelace) ==
    IF asset_ids = <<>> THEN << TxOut("self", remaining_lovelace, NoBundle) >>
    ELSE LET token_bundle == TokenBundle(TotalOf(us, Head(asset_ids)), Head(asset_ids))
             token_dust == ProtocolParameters.minUTxOValue
         IN  << TxOut("self", token_dust, token_bundle) >>
             \o ConsolidateOutputs_FlatDust(Tail(asset_ids), us,
                                            remaining_lovelace - token_dust)

RECURSIVE ConsolidateOutputs(_, _, _)
ConsolidateOutputs(asset_ids, us, remaining_lovelace) ==
    IF asset_ids = <<>> THEN << TxOut("self", remaining_lovelace, NoBundle) >>
    ELSE LET token_bundle == TokenBundle(TotalOf(us, Head(asset_ids)), Head(asset_ids))
             token_dust == min_token_dust_value(token_bundle)
         IN  << TxOut("self", token_dust, token_bundle) >>
             \o ConsolidateOutputs(Tail(asset_ids), us, remaining_lovelace - token_dust)

ConsolidateSelect ==
    /\ Running /\ pc = "start" /\ call.op = "consolidate_utxos"
    /\ \E ok \in BOOLEAN :
         /\ log' = CardanoCLI_run("query utxo", "", ok)
         /\ IF ok
            THEN LET new_outputs ==
                         ConsolidateOutputs(AssetsSeen(ledger, <<>>), ledger,
                                            TotalOf(ledger, lovelace_unit))
                 IN  /\ Construct
                     /\ inputs' = TxIns(ledger)
                     /\ outputs' = new_outputs
                     /\ lovelace_to_return' = new_outputs[Len(new_outputs)].lovelace
                     /\ pc' = "draft" /\ error' = error
            ELSE CliFailed /\ UNCHANGED <<txvars, temp_directory, alive>>
    /\ UNCHANGED <<othervars, callvars, utxos, draft, submitvars, files, deleted>>

-----------------------------------------------------------------------------
(* AbstractWallet.partition_lovelace, up to its draft *)

RECURSIVE PartitionOutputs(_, _)
PartitionOutputs(values, surplus_lovelace) ==
    IF values = <<>> THEN << TxOut("self", surplus_lovelace, NoBundle) >>
    ELSE << TxOut("self", Head(values), NoBundle) >>
         \o PartitionOutputs(Tail(values), surplus_lovelace - Head(values))

PartitionSelect ==
    /\ Running /\ pc = "start" /\ call.op = "partition_lovelace"
    /\ Construct
    /\ \E ok \in BOOLEAN :
         /\ log' = CardanoCLI_run("query utxo", "", ok)
         /\ IF ok
            THEN LET lovelace_utxos == filter_utxos(ledger, lovelace_unit, "None")
                     new_outputs ==
                         PartitionOutputs(call.values, TotalOf(lovelace_utxos, lovelace_unit))
                 IN  /\ inputs' = TxIns(lovelace_utxos)
                     /\ outputs' = new_outputs
                     /\ lovelace_to_return' = new_outputs[Len(new_outputs)].lovelace
                     /\ pc' = "draft" /\ error' = error
            ELSE CliFailed /\ UNCHANGED txvars
    /\ UNCHANGED <<othervars, callvars, utxos, draft, submitvars, files, deleted>>

-----------------------------------------------------------------------------
(* AbstractWallet.mint_tokens, up to its draft *)

MintTokensOutputs(payment_utxo) ==
    LET token_bundle == TokenBundle(call.quantity, MintedAsset)
        token_dust == min_token_dust_value(token_bundle)
        total_lovelace_being_sent == payment_utxo.Tokens[lovelace_unit]
    IN  << TxOut("X", token_dust, token_bundle),
           TxOut("self", total_lovelace_being_sent - token_dust, NoBundle) >>

MintTokensBuild(payment_utxo) ==
    LET new_outputs == MintTokensOutputs(payment_utxo)
    IN  /\ Construct
        /\ inputs' = <<TxIn(payment_utxo)>>
        /\ outputs' = new_outputs
        /\ lovelace_to_return' = new_outputs[Len(new_outputs)].lovelace
        /\ pc' = "draft" /\ error' = error

MintTokensWithPaymentUtxo ==
    /\ Running /\ pc = "start" /\ call.op = "mint_tokens"
    /\ call.payment_utxo # 0
    /\ MintTokensBuild(ledger[call.payment_utxo])
    /\ UNCHANGED <<othervars, callvars, log, utxos, draft, submitvars, files, deleted>>

MintTokensSelect ==
    /\ Running /\ pc = "start" /\ call.op = "mint_tokens"
    /\ call.payment_utxo = 0
    /\ \E ok \in BOOLEAN :
         /\ log' = CardanoCLI_run("query utxo", "", ok)
         /\ IF ~ok
            THEN CliFailed /\ UNCHANGED <<txvars, temp_directory, alive>>
            ELSE LET sorted_lovelace_utxos ==
                         sort_utxos(filter_utxos(ledger, lovelace_unit, "None"),
                                    lovelace_unit, DefaultOrder)
                 IN  IF sorted_lovelace_utxos = <<>>
                     THEN /\ Raise("insufficient_funds")
                          /\ UNCHANGED <<txvars, temp_directory, alive>>
                     ELSE MintTokensBuild(sorted_lovelace_utxos[1])
    /\ UNCHANGED <<othervars, callvars, utxos, draft, submitvars, files, deleted>>

-----------------------------------------------------------------------------
Next ==
    \/ SendLovelaceRefresh
    \/ SendLovelaceSelect
    \/ SendTokensUtxos
    \/ SendTokensSelect
    \/ ConsolidateSelect
    \/ PartitionSelect
    \/ MintTokensWithPaymentUtxo
    \/ MintTokensSelect
    \/ GenerateDraft
    \/ CalculateMinFeeRefresh
    \/ CalculateMinFee
    \/ Finalize
    \/ SubmitQueryTip
    \/ SubmitBuildRaw
    \/ SubmitDecryptKey
    \/ SubmitDecryptPolicyKey
    \/ SubmitSign
    \/ SubmitTxId
    \/ SubmitTransaction
    \/ SaveTransaction
    \/ Delete
    \/ Del

Spec == Init /\ [][Next]_vars

-----------------------------------------------------------------------------
(* What the properties read *)

Called(command) == \E i \in 1..Len(log) : log[i].cmd = command
Succeeded(command, out) ==
    \E i \in 1..Len(log) : log[i].cmd = command /\ log[i].out = out /\ log[i].ok
CountOf(command, out) ==
    Cardinality({i \in 1..Len(log) : log[i].cmd = command /\ log[i].out = out})

(* The use-case has called transaction.submit(wallet, fee, password, ...) *)
SubmitSteps == {"tip", "build", "decrypt", "decrypt_policy", "sign", "txid", "submit", "save"}
HandedToSubmit == pc \in SubmitSteps \/ (pc = "returned" /\ Committing)

(* submit() went as far as decrypting the wallet's signing key *)
DecryptionAttempted ==
    \/ pc \in {"decrypt_policy", "sign", "txid", "submit", "save"}
    \/ (pc = "decrypt" /\ error = "signing_key_decryption")
    \/ (pc = "returned" /\ Committing)

SubmitReturned == pc = "save" \/ (pc = "returned" /\ Committing)

RECURSIVE InputTotal(_, _)
InputTotal(ins, type) ==
    IF ins = <<>> THEN 0
    ELSE ledger[Head(ins)].Tokens[type] + InputTotal(Tail(ins), type)

RECURSIVE OutputLovelace(_)
OutputLovelace(outs) ==
    IF outs = <<>> THEN 0 ELSE Head(outs).lovelace + OutputLovelace(Tail(outs))

RECURSIVE OutputTokens(_, _)
OutputTokens(outs, a) ==
    IF outs = <<>> THEN 0
    ELSE (IF Head(outs).bundle.asset = a THEN Head(outs).bundle.quantity ELSE 0)
         + OutputTokens(Tail(outs), a)

ChangeOutput == outputs[Len(outputs)]

PureLovelaceUtxos == filter_utxos(ledger, lovelace_unit, "None")

-----------------------------------------------------------------------------
(* C1: every finalized transaction a use-case hands to submit balances in   *)
(* lovelace: the lovelace of all outputs plus the fee passed to submit is   *)
(* exactly the lovelace held by the selected input UTXOs; the same holds of *)
(* the raw transaction body the final build writes.                         *)
C1_LovelaceConserved ==
    /\ HandedToSubmit =>
           OutputLovelace(outputs) + tx_fee = InputTotal(inputs, lovelace_unit)
    /\ raw.exists =>
           OutputLovelace(raw.outputs) + raw.fee = InputTotal(raw.inputs, lovelace_unit)

C1_Witness ==
    /\ pc = "save"
    /\ call.op = "send_tokens"
    /\ Len(outputs) = 3
    /\ raw.exists /\ raw.fee > 0

(* C2: in every finalized multi-asset transaction every asset that is not   *)
(* minted is conserved: its quantity over the selected input UTXOs equals   *)
(* its quantity over the outputs, for every asset an input UTXO holds.      *)
C2_TokensConserved ==
    (HandedToSubmit /\ call.op \in {"send_tokens", "consolidate_utxos", "mint_tokens"}) =>
        \A a \in Assets : InputTotal(inputs, a) = OutputTokens(outputs, a)

(* C3: a change output that the fee makes negative or smaller than          *)
(* minUTxOValue makes the operation fail with insufficient funds before any *)
(* key is decrypted and before sign or submit: submit() never goes as far   *)
(* as decrypting a key for such a transaction.                              *)
C3_ChangeCheckedBeforeSigning ==
    /\ (HandedToSubmit /\ ChangeOutput.lovelace < ProtocolParameters.minUTxOValue) =>
           error = "insufficient_funds"
    /\ (DecryptionAttempted \/ Called("transaction sign") \/ Called("transaction submit")) =>
           ChangeOutput.lovelace >= ProtocolParameters.minUTxOValue

(* C4: with no UTXO holding the native unit alone, send_lovelace and        *)
(* send_tokens make no submit call, and once the UTXO listing is read they  *)
(* have raised insufficient funds.                                          *)
C4_NoPureLovelaceFails ==
    (call.op \in {"send_lovelace", "send_tokens"} /\ PureLovelaceUtxos = <<>>) =>
        /\ ~Called("transaction submit")
        /\ pc \notin {"start", "sl_utxos", "st_lovelace_utxos"} =>
               error = "insufficient_funds"

SelectionFallsShort ==
    \/ /\ call.op = "send_lovelace"
       /\ PureLovelaceUtxos # <<>>
       /\ TotalOf(PureLovelaceUtxos, lovelace_unit)
            < call.quantity + ProtocolParameters.txFeeFixed
    \/ /\ call.op = "send_tokens"
       /\ PureLovelaceUtxos # <<>>
       /\ filter_utxos(ledger, call.asset_id, "None") # <<>>
       /\ TotalOf(filter_utxos(ledger, call.asset_id, "None"), call.asset_id) < call.quantity

(* C5: when UTXOs exist but the running total never reaches the target      *)
(* (send_lovelace: quantity plus the estimated fee over the pure-lovelace   *)
(* UTXOs; send_tokens: the quantity over the UTXOs holding the asset), the  *)
(* use-case raises insufficient funds and makes no draft, sign or submit    *)
(* call.                                                                    *)
C5_ShortSelectionFails ==
    SelectionFallsShort =>
        /\ ~Called("transaction build-raw")
        /\ ~Called("transaction sign")
        /\ ~Called("transaction submit")
        /\ pc \notin {"start", "sl_utxos", "st_lovelace_utxos"} =>
               error = "insufficient_funds"

(* C6: when submit returns or raises, on whatever path, neither decrypted   *)
(* signing key file exists any more.                                        *)
C6_NoKeyOutlivesSubmit ==
    (HandedToSubmit /\ (error # "none" \/ SubmitReturned)) =>
        /\ "signing.key" \notin files
        /\ "policy-signing.key" \notin files

SameButChange(a, b) ==
    /\ Len(a) = Len(b)
    /\ \A i \in 1..Len(a) :
         /\ a[i].address = b[i].address
         /\ a[i].bundle = b[i].bundle
         /\ i < Len(a) => a[i].lovelace = b[i].lovelace

(* C7: the external steps of one use-case invocation occur only in the      *)
(* order draft build (fee 0), fee estimate, final build (real fee and TTL), *)
(* sign, submit: every sign call comes after a successful final build,      *)
(* every submit call after a successful sign, and every final build after a *)
(* successful fee estimate that itself follows a successful draft build of  *)
(* the same inputs and the same outputs (but for the change amount).        *)
C7_PipelineOrder ==
    /\ \A i \in 1..Len(log) : log[i].cmd = "transaction sign" =>
           \E j \in 1..(i - 1) :
               /\ log[j].cmd = "transaction build-raw"
               /\ log[j].out = "transaction.raw" /\ log[j].ok
    /\ \A i \in 1..Len(log) : log[i].cmd = "transaction submit" =>
           \E j \in 1..(i - 1) : log[j].cmd = "transaction sign" /\ log[j].ok
    /\ \A i \in 1..Len(log) :
           (log[i].cmd = "transaction build-raw" /\ log[i].out = "transaction.raw") =>
               /\ \E j \in 1..(i - 1), k \in 1..(i - 1) :
                      /\ j < k
                      /\ log[j].cmd = "transaction build-raw"
                      /\ log[j].out = "transaction.draft" /\ log[j].ok
                      /\ log[k].cmd = "transaction calculate-min-fee" /\ log[k].ok
               /\ draft.exists /\ draft.fee = 0
               /\ draft.inputs = inputs
               /\ SameButChange(draft.outputs, outputs)
    /\ raw.exists =>
           /\ raw.fee = tx_fee /\ raw.fee \in FeeValues
           /\ raw.invalid_hereafter > 0
           /\ raw.inputs = draft.inputs
           /\ SameButChange(draft.outputs, raw.outputs)

C7_Witness ==
    /\ pc = "save"
    /\ Succeeded("transaction submit", "")
    /\ Len(log) >= 7

PipelineCalls ==
    { <<"transaction build-raw", "transaction.draft">>,
      <<"transaction calculate-min-fee", "">>,
      <<"query tip", "">>,
      <<"transaction build-raw", "transaction.raw">>,
      <<"transaction sign", "transaction.signed">>,
      <<"transaction txid", "">>,
      <<"transaction submit", "">> }

(* C8: a failed external call is terminal: it is the last call of the       *)
(* invocation and reaches the caller as the interface's CardanoError; and   *)
(* no step of the pipeline (draft build, fee estimate, tip query, final     *)
(* build, sign, txid, submit) is invoked more than once per invocation.     *)
C8_FailureIsTerminal ==
    /\ \A i \in 1..Len(log) : ~log[i].ok => (i = Len(log) /\ error = "interface")
    /\ error = "interface" => (Len(log) > 0 /\ ~log[Len(log)].ok)
    /\ \A c \in PipelineCalls : CountOf(c[1], c[2]) <= 1

C8_Witness ==
    /\ error = "interface"
    /\ Len(log) > 0
    /\ log[Len(log)].cmd = "transaction submit"
    /\ ~log[Len(log)].ok

WithoutPassword == call.password = "None"

(* C9: a transaction is saved only after every pipeline step, submit        *)
(* included, succeeded; a use-case called without a password returns after  *)
(* a successful draft build having made no fee estimate, no sign and no     *)
(* submit call, and its transaction is not saved; a committing call that    *)
(* returns has saved its transaction.                                       *)
C9_SavedOnlyAfterSubmit ==
    /\ saved =>
           /\ error = "none"
           /\ \A c \in PipelineCalls \ {<<"query tip", "">>} : Succeeded(c[1], c[2])
    /\ WithoutPassword =>
           /\ ~saved
           /\ ~Called("transaction calculate-min-fee")
           /\ ~Called("transaction sign")
           /\ ~Called("transaction submit")
           /\ pc = "returned" => Succeeded("transaction build-raw", "transaction.draft")
           /\ pc \in {"start", "sl_utxos", "st_lovelace_utxos", "draft", "returned"}
    /\ (pc = "returned" /\ ~WithoutPassword /\ ~deleted /\ ~saved) =>
           ~Called("transaction submit")

C9_Witness ==
    /\ pc = "returned"
    /\ saved
    /\ call.op = "send_lovelace"
    /\ call.password = "pw"

(* C10: the intermediate directory exists when a dry run has returned its   *)
(* drafted transaction (and the object is still referenced and not          *)
(* deleted); it no longer exists once delete() was called on the            *)
(* transaction, nor once the submit call succeeded.                         *)
C10_IntermediateDirectory ==
    /\ (pc = "returned" /\ ~Committing /\ alive /\ ~deleted) =>
           (temp_directory /\ "transaction.draft" \in files)
    /\ deleted => (~temp_directory /\ files = {})
    /\ Succeeded("transaction submit", "") => (~temp_directory /\ files = {})

C10_Witness ==
    /\ deleted
    /\ ~Committing
    /\ draft.exists
    /\ call.op = "send_lovelace"

(* C11: a wallet holding exactly one UTXO of 10,000,000 lovelace and        *)
(* nothing else, send_lovelace of 4,000,000 to X, computed fee 170,000: the *)
(* finalized transaction has that one UTXO as its only input, the outputs   *)
(* (X, 4000000) then (own address, 5830000), and the fee 170,000; so has    *)
(* the raw body the final build writes.                                     *)
OneUtxoScenario ==
    /\ ledger = << Utxo(1, 10000000, [A |-> 0, B |-> 0]) >>
    /\ call.op = "send_lovelace"
    /\ call.quantity = 4000000
    /\ tx_fee = 170000

C11_OneUtxoTransfer ==
    OneUtxoScenario =>
        /\ HandedToSubmit =>
               /\ inputs = << 1 >>
               /\ outputs = << TxOut("X", 4000000, NoBundle),
                               TxOut("self", 5830000, NoBundle) >>
        /\ raw.exists =>
               /\ raw.inputs = << 1 >>
               /\ raw.outputs = << TxOut("X", 4000000, NoBundle),
                                   TxOut("self", 5830000, NoBundle) >>
               /\ raw.fee = 170000

C11_Witness ==
    /\ OneUtxoScenario
    /\ raw.exists
    /\ pc = "returned"
    /\ saved

-----------------------------------------------------------------------------
(* CardanoUtils.token_bundle_size and min_token_dust_value on their own:    *)
(* DustSpec draws a bundle and a minUTxOValue and applies the two functions *)

MaxParts == 5

TOKEN_BUNDLE_PARTS ==
    << Part(1, "fe1249f6a018ccc7a620df6226d6b9b9a63555593051b79885dc2e27", ""),
       Part(1, "fe1249f6a018ccc7a620df6226d6b9b9a63555593051b79885dc2e28", "TestNFT"),
       Part(1, "fe1249f6a018ccc7a620df6226d6b9b9a63555593051b79885dc2e29", "TestNFT2"),
       Part(1, "fe1249f6a018ccc7a620df6226d6b9b9a63555593051b79885dc2e29", "TestNFT3"),
       Part(1, "fe1249f6a018ccc7a620df6226d6b9b9a63555593051b79885dc2e29", "TestNFT4") >>
DEFAULT_TOKEN_BUNDLE == TOKEN_BUNDLE_PARTS

BundleParts == {TOKEN_BUNDLE_PARTS[i] : i \in 1..Len(TOKEN_BUNDLE_PARTS)}
Bundles == UNION { [1..n -> BundleParts] : n \in 1..MaxParts }
MinUtxoValues == {0, 26, 999978, 1000000, 34482000}

DustInit ==
    /\ ledger = <<>>
    /\ call \in {c \in Calls : c.op = "consolidate_utxos" /\ c.password = "None"}
    /\ Fresh
    /\ sized_bundle \in Bundles
    /\ min_utxo_value \in MinUtxoValues
    /\ bundle_size = 0
    /\ dust_value = 0
    /\ sizer = "idle"
    /\ PolicyIdle
    /\ RaceIdle
    /\ FeeIdle
    /\ SnapIdle

TokenBundleSize ==
    /\ sizer = "idle"
    /\ bundle_size' = bundleSize(sized_bundle)
    /\ sizer' = "sized"
    /\ UNCHANGED <<mainvars, snapvars, policyvars, racevars, feevars, sized_bundle, min_utxo_value, dust_value>>

MinTokenDustValue ==
    /\ sizer = "sized"
    /\ dust_value' = minDustFor(bundle_size, min_utxo_value)
    /\ sizer' = "valued"
    /\ UNCHANGED <<mainvars, snapvars, policyvars, racevars, feevars, sized_bundle, min_utxo_value, bundle_size>>

DustNext ==
    \/ TokenBundleSize
    \/ MinTokenDustValue

DustSpec == DustInit /\ [][DustNext]_vars

(* C12: under the pinned formula (byteCount = numAssets*12 + byte lengths   *)
(* of the distinct asset names + byte length of each distinct policy id;    *)
(* words = 6 + ceil((byteCount + 7) / 8)) the five-part test bundle sizes   *)
(* to exactly 30 words.                                                     *)
C12_TestBundleIs30Words ==
    (sizer # "idle" /\ sized_bundle = DEFAULT_TOKEN_BUNDLE) => bundle_size = 30

NoDuplicates(ins) ==
    \A i \in 1..Len(ins), j \in 1..Len(ins) : i # j => ins[i] # ins[j]

-----------------------------------------------------------------------------
(* MintingPolicyManager.create.  PolicySpec is one call of it: every        *)
(* external call may succeed or fail; FieldFile.save(..., save=False)       *)
(* writes the file to the storage at once and leaves the record unsaved.    *)

PolicyPasswords == {"", "pw"}
InvalidBeforeSlots == {NoSlot, 0, 100}
InvalidHereafterSlots == {NoSlot, 0, 50000}
KeyHashes == {"keyhash1", "keyhash2"}
PolicyIds == {"policyid1", "policyid2"}

PolicyInit ==
    /\ ledger = <<>>
    /\ call \in {c \in Calls : c.op = "consolidate_utxos" /\ c.password = "None"}
    /\ Fresh
    /\ SizerIdle
    /\ policy_args \in [password : PolicyPasswords, invalid_before : InvalidBeforeSlots,
                        invalid_hereafter : InvalidHereafterSlots]
    /\ policy_pc = "start"
    /\ policy_error = "none"
    /\ policy_tmp = {}
    /\ policy_storage = {}
    /\ policy_key_hash = ""
    /\ policy_script = <<>>
    /\ policy_id = ""
    /\ policy_saved = FALSE
    /\ RaceIdle
    /\ FeeIdle
    /\ SnapIdle

PolicyRunning == policy_error = "none"

(* An exception leaves the 'with tempfile.TemporaryDirectory()' block: the  *)
(* temporary directory goes, nothing else is undone                         *)
PolicyRaise(kind) ==
    /\ policy_error' = kind
    /\ policy_tmp' = {}
    /\ UNCHANGED <<policy_pc, policy_storage>>

(* 1. 'address key-gen' *)
PolicyKeyGen ==
    /\ PolicyRunning /\ policy_pc = "start"
    /\ \E ok \in BOOLEAN :
         IF ok
         THEN /\ policy_tmp' = {"signing.key", "verification.key"}
              /\ policy_pc' = "encrypt"
              /\ UNCHANGED <<policy_error, policy_storage>>
         ELSE PolicyRaise("interface")
    /\ UNCHANGED <<mainvars, snapvars, sizervars, racevars, feevars, policy_args, policy_key_hash, policy_script,
                   policy_id, policy_saved>>

(* 2. both keys encrypted and attached: file_field.save(..., save=False) *)
PolicyEncryptKeys ==
    /\ PolicyRunning /\ policy_pc = "encrypt"
    /\ policy_storage' = policy_storage \cup {"signing.key.aes", "verification.key.aes"}
    /\ policy_pc' = "key_hash"
    /\ UNCHANGED <<mainvars, snapvars, sizervars, racevars, feevars, policy_args, policy_error, policy_tmp,
                   policy_key_hash, policy_script, policy_id, policy_saved>>

PolicyKeyHash ==
    /\ PolicyRunning /\ policy_pc = "key_hash"
    /\ \E ok \in BOOLEAN, answer \in KeyHashes :
         IF ok
         THEN /\ policy_key_hash' = answer
              /\ policy_pc' = "script"
              /\ UNCHANGED <<policy_error, policy_tmp, policy_storage>>
         ELSE PolicyRaise("interface") /\ UNCHANGED policy_key_hash
    /\ UNCHANGED <<mainvars, snapvars, sizervars, racevars, feevars, policy_args, policy_script, policy_id,
                   policy_saved>>

(* 3. the policy script *)
PolicyScripts ==
    << [type |-> "sig", keyHash |-> policy_key_hash, slot |-> 0] >>
    \o (IF SlotIsTruthy(policy_args.invalid_before)
        THEN << [type |-> "after", keyHash |-> "", slot |-> policy_args.invalid_before] >>
        ELSE <<>>)
    \o (IF SlotIsTruthy(policy_args.invalid_hereafter)
        THEN << [type |-> "before", keyHash |-> "", slot |-> policy_args.invalid_hereafter] >>
        ELSE <<>>)

PolicyScriptSave ==
    /\ PolicyRunning /\ policy_pc = "script"
    /\ policy_script' = PolicyScripts
    /\ policy_storage' = policy_storage \cup {"policy.script.json"}
    /\ policy_pc' = "policyid"
    /\ UNCHANGED <<mainvars, snapvars, sizervars, racevars, feevars, policy_args, policy_error, policy_tmp,
                   policy_key_hash, policy_id, policy_saved>>

(* 4. 'transaction policyid'; the 'with' block ends *)
PolicyId ==
    /\ PolicyRunning /\ policy_pc = "policyid"
    /\ \E ok \in BOOLEAN, answer \in PolicyIds :
         IF ok
         THEN /\ policy_id' = answer
              /\ policy_tmp' = {}
              /\ policy_pc' = "save"
              /\ UNCHANGED <<policy_error, policy_storage>>
         ELSE PolicyRaise("interface") /\ UNCHANGED policy_id
    /\ UNCHANGED <<mainvars, snapvars, sizervars, racevars, feevars, policy_args, policy_key_hash, policy_script,
                   policy_saved>>

(* policy.save(force_insert=True, using=self.db) *)
PolicySave ==
    /\ PolicyRunning /\ policy_pc = "save"
    /\ policy_saved' = TRUE
    /\ policy_pc' = "created"
    /\ UNCHANGED <<mainvars, snapvars, sizervars, racevars, feevars, policy_args, policy_error, policy_tmp,
                   policy_storage, policy_key_hash, policy_script, policy_id>>

PolicyNext ==
    \/ PolicyKeyGen
    \/ PolicyEncryptKeys
    \/ PolicyKeyHash
    \/ PolicyScriptSave
    \/ PolicyId
    \/ PolicySave

PolicySpec == PolicyInit /\ [][PolicyNext]_vars

(* C15: policy creation is all-or-nothing: when key generation, key hashing *)
(* or the policy-id computation fails, the policy has no database record    *)
(* and no stored encrypted key file or script file.                         *)
C15_PolicyAllOrNothing ==
    policy_error # "none" =>
        /\ ~policy_saved
        /\ policy_storage = {}

(* C16: a wrong password or corrupted key during submit raises the error of *)
(* the decryption that failed, whose code is SIGNING_KEY_DECRYPTION_FAILURE *)
(* (wallet key) or POLICY_SIGNING_KEY_DECRYPTION_FAILURE (policy key) and   *)
(* no code an interface failure can carry; and then neither the sign call   *)
(* nor the submit call is made.                                             *)
C16_DecryptionFailureCode ==
    /\ (pc = "decrypt" /\ error # "none") =>
           /\ error = "signing_key_decryption"
           /\ CardanoError_code(error) = {EnumCode(SIGNING_KEY_DECRYPTION_FAILURE)}
    /\ (pc = "decrypt_policy" /\ error # "none") =>
           /\ error = "policy_signing_key_decryption"
           /\ CardanoError_code(error) = {EnumCode(POLICY_SIGNING_KEY_DECRYPTION_FAILURE)}
    /\ error \in {"signing_key_decryption", "policy_signing_key_decryption"} =>
           /\ pc \in {"decrypt", "decrypt_policy"}
           /\ CardanoError_code(error) \cap CardanoError_code("interface") = {}
           /\ ~Called("transaction sign")
           /\ ~Called("transaction submit")
           /\ ~saved

C16_Witness ==
    /\ error = "policy_signing_key_decryption"
    /\ "signing.key" \in files
    /\ raw.exists

-----------------------------------------------------------------------------
(* Two invocations of send_lovelace on one wallet, interleaved.  Each runs  *)
(* the steps of one invocation in order; the node holds the wallet's        *)
(* unspent outputs and takes a submitted transaction only when every input  *)
(* of it is still unspent.                                                  *)

RaceInit ==
    /\ ledger = <<>>
    /\ call \in {c \in Calls : c.op = "consolidate_utxos" /\ c.password = "None"}
    /\ Fresh
    /\ SizerIdle
    /\ PolicyIdle
    /\ FeeIdle
    /\ SnapIdle
    /\ chain \in Ledgers
    /\ race_call \in [Invocations -> LovelaceQuantities]
    /\ race_pc = [p \in Invocations |-> "start"]
    /\ race_utxos = [p \in Invocations |-> <<>>]
    /\ race_inputs = [p \in Invocations |-> <<>>]
    /\ race_change = [p \in Invocations |-> 0]
    /\ race_log = [p \in Invocations |-> <<>>]
    /\ spent = <<>>

RaceRun(p, command, ok) ==
    race_log' = [race_log EXCEPT ![p] = Append(@, [cmd |-> command, ok |-> ok])]

RaceCalled(p, command) ==
    \E i \in 1..Len(race_log[p]) : race_log[p][i].cmd = command

RaceFailed(p) == race_pc' = [race_pc EXCEPT ![p] = "failed"]

(* self.lovelace_utxos: 'query utxo' lists what is unspent now; the loop of *)
(* send_lovelace selects among it                                           *)
RaceSelect(p) ==
    /\ race_pc[p] = "start"
    /\ \E ok \in BOOLEAN :
         /\ RaceRun(p, "query utxo", ok)
         /\ IF ok
            THEN /\ race_utxos' = [race_utxos EXCEPT ![p] = chain]
                 /\ race_inputs' =
                        [race_inputs EXCEPT
                            ![p] = TxIns(LovelaceSelection(chain, race_call[p]))]
                 /\ race_change' =
                        [race_change EXCEPT
                            ![p] = TotalOf(LovelaceSelection(chain, race_call[p]),
                                           lovelace_unit)]
                 /\ race_pc' = [race_pc EXCEPT ![p] = "draft"]
            ELSE RaceFailed(p) /\ UNCHANGED <<race_utxos, race_inputs, race_change>>
    /\ UNCHANGED <<mainvars, snapvars, sizervars, policyvars, feevars, chain, race_call, spent>>

(* generate_draft, calculate_min_fee and the change of send_lovelace *)
RaceDraft(p) ==
    /\ race_pc[p] = "draft"
    /\ \E ok \in BOOLEAN, fee \in FeeValues :
         /\ RaceRun(p, "transaction calculate-min-fee", ok)
         /\ IF ok
            THEN /\ race_change' =
                        [race_change EXCEPT ![p] = @ - race_call[p] - fee]
                 /\ race_pc' = [race_pc EXCEPT ![p] = "sign"]
            ELSE RaceFailed(p) /\ UNCHANGED race_change
    /\ UNCHANGED <<mainvars, snapvars, sizervars, policyvars, feevars, chain, race_call, race_utxos,
                   race_inputs, spent>>

(* submit(): 'query tip', 'transaction build-raw', the decryption and       *)
(* 'transaction sign'                                                       *)
RaceSign(p) ==
    /\ race_pc[p] = "sign"
    /\ \E ok \in BOOLEAN :
         /\ RaceRun(p, "transaction sign", ok)
         /\ IF ok THEN race_pc' = [race_pc EXCEPT ![p] = "submit"] ELSE RaceFailed(p)
    /\ UNCHANGED <<mainvars, snapvars, sizervars, policyvars, feevars, chain, race_call, race_utxos,
                   race_inputs, race_change, spent>>

Unspent == {TxIn(chain[i]) : i \in 1..Len(chain)}
Elements(s) == {s[i] : i \in 1..Len(s)}

(* The node takes a transaction whose inputs are all unspent and whose      *)
(* outputs are positive                                                     *)
NodeTakes_Anything(p) == race_change[p] > 0

NodeTakes(p) ==
    /\ Elements(race_inputs[p]) \subseteq Unspent
    /\ race_change[p] > 0

RECURSIVE Without(_, _)
Without(us, ids) ==
    IF us = <<>> THEN <<>>
    ELSE (IF TxIn(Head(us)) \in ids THEN <<>> ELSE <<Head(us)>>)
         \o Without(Tail(us), ids)

(* The output a taken transaction of invocation p returns to the wallet *)
ChangeUtxo(p) ==
    Utxo(MaxUtxos + 1 + p, race_change[p], [a \in Assets |-> 0])

(* submit(): 'transaction submit'.  The call fails when the node refuses    *)
(* the transaction, and may fail for any other reason.                      *)
RaceSubmit(p) ==
    /\ race_pc[p] = "submit"
    /\ \E ok \in BOOLEAN :
         LET taken == ok /\ NodeTakes(p)
         IN  /\ RaceRun(p, "transaction submit", taken)
             /\ IF taken
                THEN /\ chain' = Append(Without(chain, Elements(race_inputs[p])),
                                        ChangeUtxo(p))
                     /\ spent' = spent \o race_inputs[p]
                     /\ race_pc' = [race_pc EXCEPT ![p] = "done"]
                ELSE RaceFailed(p) /\ UNCHANGED <<chain, spent>>
    /\ UNCHANGED <<mainvars, snapvars, sizervars, policyvars, feevars, race_call, race_utxos, race_inputs,
                   race_change>>

RaceNext ==
    \E p \in Invocations :
        \/ RaceSelect(p)
        \/ RaceDraft(p)
        \/ RaceSign(p)
        \/ RaceSubmit(p)

RaceSpec == RaceInit /\ [][RaceNext]_vars

SharedInputs(p, q) == Elements(race_inputs[p]) \cap Elements(race_inputs[q])

(* C17: the engine has no double-spend prevention.  Two interleaved         *)
(* invocations on one wallet that each list the UTXOs before the other      *)
(* submits can hold the same UTXO in their inputs and both reach the submit *)
(* call; what each selects is the selection among what was listed to it,    *)
(* whatever the other holds; and no UTXO is spent twice only because the    *)
(* node takes at most one of two transactions that share an input.          *)
C17_LedgerIsTheArbiter ==
    /\ \A i, j \in 1..Len(spent) : spent[i] = spent[j] => i = j
    /\ \A p \in Invocations :
         /\ RaceCalled(p, "transaction calculate-min-fee") =>
                race_inputs[p] = TxIns(LovelaceSelection(race_utxos[p], race_call[p]))
         /\ race_pc[p] = "done" => RaceCalled(p, "transaction submit")
    /\ \A p, q \in Invocations :
         (p # q /\ SharedInputs(p, q) # {} /\ race_pc[p] = "done") =>
             /\ race_pc[q] # "done"
             /\ RaceCalled(q, "transaction submit") =>
                    /\ race_pc[q] = "failed"
                    /\ ~race_log[q][Len(race_log[q])].ok

C17_Witness ==
    /\ SharedInputs(1, 2) # {}
    /\ RaceCalled(1, "transaction submit")
    /\ RaceCalled(2, "transaction submit")
    /\ race_pc[1] = "done"
    /\ race_pc[2] = "failed"
    /\ race_change[2] > 0

-----------------------------------------------------------------------------
(* calculate_min_fee on what 'transaction calculate-min-fee' prints.  A     *)
(* text is the sequence of its characters.                                  *)

MaxTokens == 4

Digits == {"0", "1", "7"}
Whitespace == {" ", "\n"}
DigitValue(c) == CASE c = "0" -> 0 [] c = "1" -> 1 [] c = "7" -> 7

Lovelace == <<"L", "o", "v", "e", "l", "a", "c", "e">>

(* The pieces the texts of the model are made of *)
Tokens ==
    { <<d>> : d \in Digits } \cup { <<w>> : w \in Whitespace }
    \cup { Lovelace, <<"l", "o", "v", "e", "l", "a", "c", "e">>, <<"L", "o", "v", "e">>,
           <<"-">>, <<"x">> }

RECURSIVE Concat(_)
Concat(pieces) ==
    IF pieces = <<>> THEN <<>> ELSE Head(pieces) \o Concat(Tail(pieces))

Stdouts == { Concat(pieces) : pieces \in UNION { [1..n -> Tokens] : n \in 0..MaxTokens } }

(* How many characters of `text` from position i on are in `class` *)
RECURSIVE Run(_, _, _)
Run(text, i, class) ==
    IF i > Len(text) \/ text[i] \notin class THEN 0 ELSE 1 + Run(text, i + 1, class)

RECURSIVE RunBack(_, _, _)
RunBack(text, i, class) ==
    IF i < 1 \/ text[i] \notin class THEN 0 ELSE 1 + RunBack(text, i - 1, class)

(* completed_process.stdout.decode().strip() *)
strip(text) ==
    LET lead == Run(text, 1, Whitespace)
        trail == RunBack(text, Len(text), Whitespace)
    IN  IF lead = Len(text) THEN <<>> ELSE SubSeq(text, lead + 1, Len(text) - trail)

NoMatch == <<>>

(* re.compile(r'(\d+)\s+Lovelace').match(text): anchored at the start of    *)
(* the text only; the value is group 1, or NoMatch.  \d+ and \s+ are greedy *)
(* and giving back a character never helps, as no digit is whitespace and   *)
(* no whitespace is 'L'.                                                    *)
MIN_FEE_RE_match(text) ==
    LET d == Run(text, 1, Digits)
        s == Run(text, d + 1, Whitespace)
        from == d + s + 1
        upto == d + s + Len(Lovelace)
    IN  IF d >= 1 /\ s >= 1 /\ upto <= Len(text) /\ SubSeq(text, from, upto) = Lovelace
        THEN SubSeq(text, 1, d)
        ELSE NoMatch

(* int(match[1]) *)
RECURSIVE int(_)
int(digits) ==
    IF digits = <<>> THEN 0
    ELSE 10 * int(SubSeq(digits, 1, Len(digits) - 1)) + DigitValue(digits[Len(digits)])

PROTOCOL_TTL == 3600

(* The age of protocol.json when calculate_min_fee is called *)
ParamsAges == {0, PROTOCOL_TTL, PROTOCOL_TTL + 1, 2 * PROTOCOL_TTL}

FeeInit ==
    /\ ledger = <<>>
    /\ call \in {c \in Calls : c.op = "consolidate_utxos" /\ c.password = "None"}
    /\ Fresh
    /\ SizerIdle
    /\ PolicyIdle
    /\ RaceIdle
    /\ SnapIdle
    /\ fee_stdout = <<>>
    /\ raw_response = <<>>
    /\ fee_pc = "start"
    /\ fee_result = 0
    /\ fee_draft \in BOOLEAN
    /\ fee_params_age \in ParamsAges
    /\ fee_log = <<>>

(* The draft file must exist; CardanoUtils.refresh_protocol_parameters()    *)
(* then queries the parameters and writes protocol.json anew                *)
FeeRefresh_KeepsCache ==
    /\ fee_pc = "start"
    /\ fee_pc' = IF fee_draft THEN "run" ELSE "CardanoError"
    /\ UNCHANGED <<mainvars, snapvars, sizervars, policyvars, racevars, fee_stdout, raw_response,
                   fee_result, fee_draft, fee_params_age, fee_log>>

FeeRefresh ==
    /\ fee_pc = "start"
    /\ IF ~fee_draft
       THEN fee_pc' = "CardanoError" /\ UNCHANGED <<fee_params_age, fee_log>>
       ELSE \E ok \in BOOLEAN :
              /\ fee_log' = Append(fee_log, [cmd |-> "query protocol-parameters", ok |-> ok])
              /\ IF ok
                 THEN fee_pc' = "run" /\ fee_params_age' = 0
                 ELSE fee_pc' = "CardanoError" /\ fee_params_age' = fee_params_age
    /\ UNCHANGED <<mainvars, snapvars, sizervars, policyvars, racevars, fee_stdout, raw_response,
                   fee_result, fee_draft>>

(* CardanoCLI.run('transaction calculate-min-fee', ...) *)
FeeRun ==
    /\ fee_pc = "run"
    /\ \E ok \in BOOLEAN, out \in Stdouts :
         /\ fee_log' = Append(fee_log, [cmd |-> "transaction calculate-min-fee", ok |-> ok,
                                        params_age |-> fee_params_age])
         /\ IF ok
            THEN /\ fee_stdout' = out
                 /\ raw_response' = strip(out)
                 /\ fee_pc' = "answered"
            ELSE /\ UNCHANGED <<fee_stdout, raw_response>>
                 /\ fee_pc' = "CardanoError"
    /\ UNCHANGED <<mainvars, snapvars, sizervars, policyvars, racevars, fee_result, fee_draft,
                   fee_params_age>>

(* match = MIN_FEE_RE.match(raw_response); return int(match[1]).  With no   *)
(* match, match is None and match[1] raises TypeError.                      *)
FeeMatch ==
    /\ fee_pc = "answered"
    /\ LET match == MIN_FEE_RE_match(raw_response)
       IN  IF match = NoMatch
           THEN fee_pc' = "TypeError" /\ fee_result' = fee_result
           ELSE fee_pc' = "returned" /\ fee_result' = int(match)
    /\ UNCHANGED <<mainvars, snapvars, sizervars, policyvars, racevars, fee_stdout, raw_response,
                   fee_draft, fee_params_age, fee_log>>

(* The use-case takes the value as tx_fee and rewrites the last output *)
FeeFinalize ==
    /\ fee_pc = "returned"
    /\ fee_pc' = "finalized"
    /\ UNCHANGED <<mainvars, snapvars, sizervars, policyvars, racevars, fee_stdout, raw_response,
                   fee_result, fee_draft, fee_params_age, fee_log>>

FeeNext == FeeRefresh \/ FeeRun \/ FeeMatch \/ FeeFinalize

FeeSpec == FeeInit /\ [][FeeNext]_vars

AllIn(text, from, upto, class) == \A i \in from..upto : text[i] \in class

(* `text` is digits, whitespace and the unit, with `rest` characters after *)
FeeForm(text, rest) ==
    \E d \in 1..Len(text), s \in 1..Len(text) :
        /\ d + s + Len(Lovelace) + rest = Len(text)
        /\ AllIn(text, 1, d, Digits)
        /\ AllIn(text, d + 1, d + s, Whitespace)
        /\ SubSeq(text, d + s + 1, d + s + Len(Lovelace)) = Lovelace

(* C18: calculate_min_fee returns the integer N only for a response of the  *)
(* form '<N> Lovelace'; a response that lacks the digits or the unit makes  *)
(* it fail with an error and return no number, so that the pipeline never   *)
(* finalizes with a fee taken from a malformed response.                    *)
C18_FeeOnlyFromWellFormedResponse ==
    /\ fee_pc \in {"returned", "finalized"} => FeeForm(raw_response, 0)
    /\ (fee_pc \in {"returned", "finalized", "TypeError"} /\ ~FeeForm(raw_response, 0)) =>
           fee_pc = "TypeError" /\ fee_result = 0

-----------------------------------------------------------------------------
DraftChange == draft.outputs[Len(draft.outputs)].lovelace

(* C19: in every use-case finalization sets the last output's lovelace to   *)
(* exactly what that output carried in the fee-0 draft the fee was          *)
(* estimated on, minus the computed fee.                                    *)
C19_ChangeIsDraftChangeMinusFee ==
    /\ HandedToSubmit => ChangeOutput.lovelace = DraftChange - tx_fee
    /\ raw.exists =>
           raw.outputs[Len(raw.outputs)].lovelace = DraftChange - raw.fee

-----------------------------------------------------------------------------
(* C20: between the fee-0 draft build and the final build of a transaction  *)
(* the inputs, the number of outputs, the address and bundle of every       *)
(* output, the lovelace of every output but the last, the metadata and the  *)
(* mint bundle are unchanged: the final build differs from the draft only   *)
(* in the fee, the invalid-hereafter slot and the last output's lovelace;   *)
(* and the draft is built with fee 0 whatever keyword arguments are passed. *)
C20_DraftAndFinalBuild ==
    /\ draft.exists => draft.fee = 0
    /\ raw.exists =>
           /\ draft.exists
           /\ raw.inputs = draft.inputs
           /\ SameButChange(draft.outputs, raw.outputs)
           /\ raw.metadata = draft.metadata
           /\ raw.mint = draft.mint
           /\ raw.script = draft.script
    /\ pc \in {"fee_refresh", "minfee", "finalize", "tip", "build"} =>
           /\ draft.exists
           /\ inputs = draft.inputs
           /\ SameButChange(draft.outputs, outputs)

C20_Witness ==
    /\ raw.exists
    /\ call.op = "mint_tokens"
    /\ raw.metadata
    /\ raw.mint # draft.outputs[Len(draft.outputs)].bundle
    /\ raw.fee > draft.fee
    /\ raw.invalid_hereafter # draft.invalid_hereafter
    /\ raw.outputs[Len(raw.outputs)].lovelace # DraftChange

-----------------------------------------------------------------------------
(* The listed inputs hold non-decreasing quantities of `type` *)
NonDecreasing(ins, type) ==
    \A i, j \in 1..Len(ins) :
        i < j => ledger[ins[i]].Tokens[type] <= ledger[ins[j]].Tokens[type]

(* C21: sort_utxos without an order argument sorts ascending: the lovelace  *)
(* UTXOs of send_lovelace and the token UTXOs of send_tokens are consumed   *)
(* in non-decreasing quantity of the sort asset, the smallest first.        *)
C21_SmallestFirst ==
    /\ call.op = "send_lovelace" => NonDecreasing(inputs, lovelace_unit)
    /\ (call.op = "send_tokens" /\ inputs # <<>>) =>
           NonDecreasing(Tail(inputs), call.asset_id)

-----------------------------------------------------------------------------
IsPrefix(s, t) == Len(s) <= Len(t) /\ s = SubSeq(t, 1, Len(s))
Front(s) == SubSeq(s, 1, Len(s) - 1)

(* `selected` is what a loop that takes `candidates` in order and stops at  *)
(* the target leaves: a prefix, all of it when the target is not reached,   *)
(* and otherwise short of the target without its last element               *)
FirstFit(selected, candidates, type, target) ==
    /\ IsPrefix(selected, candidates)
    /\ IF InputTotal(selected, type) >= target
       THEN selected # <<>> => InputTotal(Front(selected), type) < target
       ELSE selected = candidates

(* C22: selection is greedy first-fit in sorted order and stops as soon as  *)
(* the running total reaches the target (quantity plus estimated fee for    *)
(* send_lovelace, the token quantity for send_tokens): the selected UTXOs   *)
(* are a prefix of the sorted candidates and, when they reach the target,   *)
(* are below it without the last one.                                       *)
C22_GreedyFirstFit ==
    /\ (call.op = "send_lovelace" /\ inputs # <<>>) =>
           FirstFit(inputs,
                    TxIns(sort_utxos(PureLovelaceUtxos, lovelace_unit, DefaultOrder)),
                    lovelace_unit,
                    call.quantity + ProtocolParameters.txFeeFixed)
    /\ (call.op = "send_tokens" /\ inputs # <<>>) =>
           FirstFit(Tail(inputs),
                    TxIns(sort_utxos(filter_utxos(ledger, call.asset_id, "None"),
                                     call.asset_id, DefaultOrder)),
                    call.asset_id,
                    call.quantity)

C22_Witness ==
    /\ call.op = "send_lovelace"
    /\ pc = "draft"
    /\ inputs # <<>>
    /\ InputTotal(inputs, lovelace_unit) >= call.quantity + ProtocolParameters.txFeeFixed
    /\ Len(inputs) < Len(PureLovelaceUtxos)

-----------------------------------------------------------------------------
(* C23: every fee estimation passes tx-in-count equal to the number of      *)
(* inputs and tx-out-count equal to the number of outputs of the drafted    *)
(* transaction, and witness-count 2 exactly when a minting policy is        *)
(* attached to the transaction and 1 otherwise.                             *)
C23_FeeEstimationCounts ==
    \A i \in 1..Len(log) : log[i].cmd = "transaction calculate-min-fee" =>
        /\ draft.exists
        /\ log[i].args.tx_in_count = Len(draft.inputs)
        /\ log[i].args.tx_out_count = Len(draft.outputs)
        /\ log[i].args.witness_count = IF draft.script THEN 2 ELSE 1
        /\ draft.script <=> call.op = "mint_tokens"

C23_Witness ==
    /\ Succeeded("transaction calculate-min-fee", "")
    /\ call.op = "mint_tokens"
    /\ call.minting_password = ""
    /\ Len(draft.inputs) = 1 /\ Len(draft.outputs) = 2

-----------------------------------------------------------------------------
FeeEstimations ==
    {i \in 1..Len(fee_log) : fee_log[i].cmd = "transaction calculate-min-fee"}

(* C24: every fee estimation is preceded, within the same calculate_min_fee *)
(* call, by a refresh of the protocol parameters, so that the parameters    *)
(* handed to the estimator are never older than the cache's time-to-live;   *)
(* with the draft file missing or the refresh failing no fee estimation is  *)
(* called.                                                                  *)
C24_RefreshBeforeEstimation ==
    /\ \A i \in FeeEstimations :
         /\ i > 1
         /\ fee_log[i - 1].cmd = "query protocol-parameters" /\ fee_log[i - 1].ok
         /\ fee_log[i].params_age <= PROTOCOL_TTL
    /\ ~fee_draft => fee_log = <<>>
    /\ (\E j \in 1..Len(fee_log) :
            fee_log[j].cmd = "query protocol-parameters" /\ ~fee_log[j].ok) =>
           FeeEstimations = {} /\ fee_pc = "CardanoError"

C24_Witness ==
    /\ fee_pc = "returned"
    /\ FeeEstimations # {}
    /\ fee_draft

-----------------------------------------------------------------------------
TipBasedSlots == {slot + DEFAULT_TRANSACTION_TTL : slot \in TipSlots}

(* C25: submit uses an explicitly supplied invalid_hereafter unchanged as   *)
(* the expiry slot and does not query the tip; with none supplied the       *)
(* expiry slot is the tip's slot plus DEFAULT_TRANSACTION_TTL.  mint_tokens *)
(* supplies the slot of the policy script's first 'before' clause when the  *)
(* script has one, and nothing otherwise.                                   *)
C25_ExpirySlot ==
    /\ raw.exists =>
           IF SuppliedInvalidHereafter # NoSlot
           THEN /\ raw.invalid_hereafter = SuppliedInvalidHereafter
                /\ ~Called("query tip")
           ELSE /\ raw.invalid_hereafter \in TipBasedSlots
                /\ Succeeded("query tip", "")
    /\ (raw.exists /\ call.op = "mint_tokens") => SuppliedInvalidHereafter = call.before
    /\ (raw.exists /\ call.op # "mint_tokens") => SuppliedInvalidHereafter = NoSlot

-----------------------------------------------------------------------------
ClausesOfType(type) ==
    {i \in 1..Len(policy_script) : policy_script[i].type = type}

(* C26: the script of a created policy is an 'all' script whose first       *)
(* clause is the signature clause with the hash of the freshly generated    *)
(* verification key; it holds a not-valid-before clause with slot X if and  *)
(* only if a lower bound X was given, a not-valid-after clause with slot Y  *)
(* if and only if an upper bound Y was given, and no other clause.          *)
C26_PolicyScript ==
    policy_script # <<>> =>
        /\ policy_script[1] = [type |-> "sig", keyHash |-> policy_key_hash, slot |-> 0]
        /\ policy_key_hash \in KeyHashes
        /\ ClausesOfType("sig") = {1}
        /\ \A i \in 1..Len(policy_script) : policy_script[i].type \in {"sig", "after", "before"}
        /\ IF policy_args.invalid_before # NoSlot
           THEN \E i \in 1..Len(policy_script) :
                    /\ ClausesOfType("after") = {i}
                    /\ policy_script[i].slot = policy_args.invalid_before
           ELSE ClausesOfType("after") = {}
        /\ IF policy_args.invalid_hereafter # NoSlot
           THEN \E i \in 1..Len(policy_script) :
                    /\ ClausesOfType("before") = {i}
                    /\ policy_script[i].slot = policy_args.invalid_hereafter
           ELSE ClausesOfType("before") = {}

-----------------------------------------------------------------------------
(* C27: a transaction's tx_id is recorded only as the result of a           *)
(* successful broadcast: after the submit call failed, or any earlier step  *)
(* failed, the transaction object's tx_id is still unset.                   *)
C27_TxIdOnlyAfterBroadcast ==
    /\ error # "none" => tx_id = ""
    /\ tx_id # "" => Succeeded("transaction submit", "")

-----------------------------------------------------------------------------
(* C28: for every transaction that reaches signing, the witness count given *)
(* to the fee estimator equals the number of signing keys passed to the     *)
(* sign call (the wallet key, plus the policy key when minting), for every  *)
(* spending_password and minting_password with which mint_tokens proceeds   *)
(* to submit, the empty minting password included.                          *)
C28_WitnessesAreSigners ==
    Called("transaction sign") =>
        /\ \A i \in 1..Len(log) : log[i].cmd = "transaction calculate-min-fee" =>
               log[i].args.witness_count = Len(signers)
        /\ Len(signers) = IF call.op = "mint_tokens" THEN 2 ELSE 1

-----------------------------------------------------------------------------
(* send_tokens up to its inputs, while the wallet's UTXOs change at the     *)
(* node: another transaction spends one of them, or an output arrives       *)

SnapInit ==
    /\ ledger = <<>>
    /\ call \in {c \in Calls : c.op = "consolidate_utxos" /\ c.password = "None"}
    /\ Fresh
    /\ SizerIdle
    /\ PolicyIdle
    /\ RaceIdle
    /\ FeeIdle
    /\ st_ledger \in Ledgers
    /\ st_call \in [asset_id : Assets, quantity : 1..MaxQuantity]
    /\ st_pc = "start"
    /\ st_utxos = <<>>
    /\ st_lovelace_utxos = <<>>
    /\ st_inputs = <<>>

Ids(us) == {TxIn(us[i]) : i \in 1..Len(us)}

(* The id of the output that arrives *)
ArrivingId == MaxUtxos + 1

(* The node: at most once, any one UTXO of the wallet is spent, or none,    *)
(* and a pure-lovelace output arrives                                       *)
LedgerChanges ==
    /\ st_pc \in {"start", "lovelace_utxos"}
    /\ ArrivingId \notin Ids(st_ledger)
    /\ \E gone \in {g \in SUBSET Ids(st_ledger) : Cardinality(g) <= 1},
          l \in LovelaceValues :
         st_ledger' = Append(Without(st_ledger, gone),
                             Utxo(ArrivingId, l, [a \in Assets |-> 0]))
    /\ UNCHANGED <<mainvars, sizervars, policyvars, racevars, feevars, st_call, st_pc,
                   st_utxos, st_lovelace_utxos, st_inputs>>

(* utxos = self.utxos *)
SnapUtxos ==
    /\ st_pc = "start"
    /\ \E ok \in BOOLEAN :
         IF ok
         THEN st_utxos' = st_ledger /\ st_pc' = "lovelace_utxos"
         ELSE st_utxos' = st_utxos /\ st_pc' = "CardanoError"
    /\ UNCHANGED <<mainvars, sizervars, policyvars, racevars, feevars, st_ledger, st_call,
                   st_lovelace_utxos, st_inputs>>

(* sort_utxos(self.lovelace_utxos), where lovelace_utxos reads self.utxos   *)
(* and so queries the node again; then the token UTXOs of `utxos` and the   *)
(* inputs                                                                   *)
SnapSelect ==
    /\ st_pc = "lovelace_utxos"
    /\ \E ok \in BOOLEAN :
         IF ~ok
         THEN /\ st_pc' = "CardanoError"
              /\ UNCHANGED <<st_lovelace_utxos, st_inputs>>
         ELSE LET sorted_lovelace_utxos ==
                      sort_utxos(filter_utxos(st_ledger, lovelace_unit, "None"),
                                 lovelace_unit, DefaultOrder)
                  token_utxos ==
                      sort_utxos(filter_utxos(st_utxos, st_call.asset_id, "None"),
                                 st_call.asset_id, DefaultOrder)
                  selected ==
                      SelectUntil(token_utxos, st_call.asset_id, st_call.quantity, 0)
              IN  /\ st_lovelace_utxos' = st_ledger
                  /\ IF sorted_lovelace_utxos = <<>>
                     THEN st_pc' = "CardanoError" /\ st_inputs' = st_inputs
                     ELSE /\ st_inputs' = <<TxIn(sorted_lovelace_utxos[1])>>
                                             \o TxIns(selected)
                          /\ st_pc' = IF TotalOf(selected, st_call.asset_id)
                                           < st_call.quantity
                                      THEN "CardanoError" ELSE "outputs"
    /\ UNCHANGED <<mainvars, sizervars, policyvars, racevars, feevars, st_ledger, st_call,
                   st_utxos>>

SnapNext == LedgerChanges \/ SnapUtxos \/ SnapSelect

SnapSpec == SnapInit /\ [][SnapNext]_vars

(* C29: all inputs of one send_tokens transaction come from a single UTXO   *)
(* snapshot of the wallet: the fee-paying pure-lovelace UTXO and the token  *)
(* UTXOs are taken from one query result, so that a ledger change while     *)
(* send_tokens runs cannot give an input list mixing two snapshots.         *)
C29_SingleSnapshot ==
    st_pc = "outputs" =>
        \/ Elements(st_inputs) \subseteq Ids(st_utxos)
        \/ Elements(st_inputs) \subseteq Ids(st_lovelace_utxos)

-----------------------------------------------------------------------------
(* The use-cases whose transactions carry token bundles *)
TokenUseCases == {"send_tokens", "consolidate_utxos", "mint_tokens"}

(* C30: in every transaction built by send_tokens, consolidate_utxos and    *)
(* mint_tokens, each output that carries a token bundle carries a lovelace  *)
(* amount equal to the minimum dust computed for that output's own bundle   *)
(* (hence at least minUTxOValue), and the last output carries lovelace only.*)
C30_TokenOutputsCarryDust ==
    (call.op \in TokenUseCases /\ outputs # <<>>) =>
        /\ \A i \in 1..Len(outputs) :
               outputs[i].bundle # NoBundle =>
                   /\ outputs[i].lovelace = min_token_dust_value(outputs[i].bundle)
                   /\ outputs[i].lovelace >= ProtocolParameters.minUTxOValue
        /\ outputs[Len(outputs)].bundle = NoBundle

(* consolidate_utxos has built the outputs of a wallet holding two assets   *)
C30_Witness ==
    /\ call.op = "consolidate_utxos"
    /\ Len(outputs) = 3
    /\ outputs[1].bundle # NoBundle
    /\ outputs[2].bundle # NoBundle
    /\ outputs[1].bundle.asset # outputs[2].bundle.asset

=============================================================================
